---- MODULE Spec2Model ----
(***************************************************************************)
(* Model of codebase_indexer.py: the exclusion filter, the language        *)
(* lookup, the fallback tree renderer and the four output modes of main()  *)
(* (simple list / full index, each over a recursive scan or a manifest).   *)
(*                                                                         *)
(* A string is a sequence of one-character strings, so that glob           *)
(* matching, substring search, suffix extraction, lower-casing and         *)
(* lexicographic comparison are computed character by character.           *)
(* A path is a sequence of name components below "/"; its string form is   *)
(* Str(path).                                                              *)
(***************************************************************************)
EXTENDS Integers, Sequences, FiniteSets, TLC

VARIABLES args, env, fs, pc, excludes, gitignore_patterns, input_paths,
          out, todo, exit, printed, run, prev_out

vars == <<args, env, fs, pc, excludes, gitignore_patterns, input_paths,
          out, todo, exit, printed, run, prev_out>>

(* ------------------------------ bounds -------------------------------- *)

\* longest manifest (number of lines of the --input-list file)
MaxManifestLen == 2

\* number of consecutive invocations with the same arguments
MaxRuns == 2

(* --------------------------- characters ------------------------------- *)

\* code points of the characters used in names and patterns
Ascii ==
    " " :> 32 @@ "#" :> 35 @@ "*" :> 42 @@ "-" :> 45 @@ "." :> 46 @@ "/" :> 47 @@
    "0" :> 48 @@ "1" :> 49 @@ "2" :> 50 @@ "3" :> 51 @@ "4" :> 52 @@ "5" :> 53 @@
    "6" :> 54 @@ "7" :> 55 @@ "8" :> 56 @@ "9" :> 57 @@ "?" :> 63 @@ "A" :> 65 @@
    "B" :> 66 @@ "C" :> 67 @@ "D" :> 68 @@ "E" :> 69 @@ "F" :> 70 @@ "G" :> 71 @@
    "H" :> 72 @@ "I" :> 73 @@ "J" :> 74 @@ "K" :> 75 @@ "L" :> 76 @@ "M" :> 77 @@
    "N" :> 78 @@ "O" :> 79 @@ "P" :> 80 @@ "Q" :> 81 @@ "R" :> 82 @@ "S" :> 83 @@
    "T" :> 84 @@ "U" :> 85 @@ "V" :> 86 @@ "W" :> 87 @@ "X" :> 88 @@ "Y" :> 89 @@
    "Z" :> 90 @@ "_" :> 95 @@ "a" :> 97 @@ "b" :> 98 @@ "c" :> 99 @@ "d" :> 100 @@
    "e" :> 101 @@ "f" :> 102 @@ "g" :> 103 @@ "h" :> 104 @@ "i" :> 105 @@ "j" :> 106 @@
    "k" :> 107 @@ "l" :> 108 @@ "m" :> 109 @@ "n" :> 110 @@ "o" :> 111 @@ "p" :> 112 @@
    "q" :> 113 @@ "r" :> 114 @@ "s" :> 115 @@ "t" :> 116 @@ "u" :> 117 @@ "v" :> 118 @@
    "w" :> 119 @@ "x" :> 120 @@ "y" :> 121 @@ "z" :> 122

LANGUAGE_MAP ==
    <<".", "p", "y">> :> "python" @@
    <<".", "p", "y", "i">> :> "python" @@
    <<".", "p", "y", "x">> :> "python" @@
    <<".", "p", "x", "d">> :> "python" @@
    <<".", "p", "x", "i">> :> "python" @@
    <<".", "p", "y", "d">> :> "python" @@
    <<".", "j", "s">> :> "javascript" @@
    <<".", "j", "s", "x">> :> "jsx" @@
    <<".", "t", "s">> :> "typescript" @@
    <<".", "t", "s", "x">> :> "tsx" @@
    <<".", "h", "t", "m", "l">> :> "html" @@
    <<".", "h", "t", "m">> :> "html" @@
    <<".", "c", "s", "s">> :> "css" @@
    <<".", "s", "c", "s", "s">> :> "scss" @@
    <<".", "s", "a", "s", "s">> :> "sass" @@
    <<".", "l", "e", "s", "s">> :> "less" @@
    <<".", "x", "m", "l">> :> "xml" @@
    <<".", "x", "h", "t", "m", "l">> :> "xml" @@
    <<".", "s", "h">> :> "bash" @@
    <<".", "b", "a", "s", "h">> :> "bash" @@
    <<".", "z", "s", "h">> :> "bash" @@
    <<".", "j", "s", "o", "n">> :> "json" @@
    <<".", "y", "a", "m", "l">> :> "yaml" @@
    <<".", "y", "m", "l">> :> "yaml" @@
    <<".", "t", "o", "m", "l">> :> "toml" @@
    <<".", "i", "n", "i">> :> "ini" @@
    <<".", "c", "f", "g">> :> "ini" @@
    <<".", "m", "d">> :> "markdown" @@
    <<".", "r", "s", "t">> :> "rst" @@
    <<".", "t", "x", "t">> :> "text" @@
    <<".", "s", "q", "l">> :> "sql" @@
    <<".", "c">> :> "c" @@
    <<".", "c", "p", "p">> :> "cpp" @@
    <<".", "h">> :> "cpp" @@
    <<".", "h", "p", "p">> :> "cpp" @@
    <<".", "j", "a", "v", "a">> :> "java" @@
    <<".", "c", "l", "a", "s", "s">> :> "java" @@
    <<".", "r", "b">> :> "ruby" @@
    <<".", "r", "b", "w">> :> "ruby" @@
    <<".", "p", "h", "p">> :> "php" @@
    <<".", "p", "h", "t", "m", "l">> :> "php" @@
    <<".", "g", "o">> :> "go" @@
    <<".", "r", "s">> :> "rust" @@
    <<".", "s", "w", "i", "f", "t">> :> "swift" @@
    <<".", "k", "t">> :> "kotlin" @@
    <<".", "k", "t", "s">> :> "kotlin"

DEFAULT_EXCLUDES ==
    { <<".", "g", "i", "t">>,
      <<".", "s", "v", "n">>,
      <<".", "h", "g">>,
      <<"n", "o", "d", "e", "_", "m", "o", "d", "u", "l", "e", "s">>,
      <<"_", "_", "p", "y", "c", "a", "c", "h", "e", "_", "_">>,
      <<"d", "i", "s", "t">>,
      <<"b", "u", "i", "l", "d">>,
      <<"t", "a", "r", "g", "e", "t">>,
      <<"v", "e", "n", "v">>,
      <<".", "e", "n", "v">>,
      <<".", "i", "d", "e", "a">>,
      <<".", "v", "s", "c", "o", "d", "e">>,
      <<".", "D", "S", "_", "S", "t", "o", "r", "e">>,
      <<"*", ".", "p", "y", "c">>,
      <<"*", ".", "p", "y", "o">>,
      <<"*", ".", "p", "y", "d">>,
      <<"*", ".", "s", "o">>,
      <<"*", ".", "d", "y", "l", "i", "b">>,
      <<"*", ".", "d", "l", "l">>,
      <<"*", ".", "c", "l", "a", "s", "s">>,
      <<"*", ".", "o">>,
      <<"*", ".", "a">>,
      <<"*", ".", "l", "i", "b">>,
      <<"*", ".", "e", "x", "e">>,
      <<"*", ".", "l", "o", "g">>,
      <<"*", ".", "t", "m", "p">>,
      <<"*", ".", "t", "e", "m", "p">>,
      <<"*", ".", "s", "w", "p">>,
      <<"*", ".", "s", "w", "o">>,
      <<"*", ".", "b", "a", "k">>,
      <<"*", ".", "b", "a", "c", "k", "u", "p">>,
      <<"*", ".", "o", "r", "i", "g">>,
      <<"*", ".", "r", "e", "j">>,
      <<"*", ".", "p", "a", "t", "c", "h">>,
      <<"*", ".", "d", "i", "f", "f">>,
      <<"*", ".", "z", "i", "p">>,
      <<"*", ".", "t", "a", "r">>,
      <<"*", ".", "g", "z">>,
      <<"*", ".", "r", "a", "r">>,
      <<"*", ".", "7", "z">>,
      <<"*", ".", "b", "z", "2">>,
      <<"*", ".", "x", "z">>,
      <<"*", ".", "t", "g", "z">>,
      <<"*", ".", "t", "a", "r", ".", "g", "z">>,
      <<"*", ".", "t", "a", "r", ".", "b", "z", "2">>,
      <<"*", ".", "t", "a", "r", ".", "x", "z">> }

Min(S) == CHOOSE m \in S : \A x \in S : m <= x

Max(S) == CHOOSE m \in S : \A x \in S : m >= x

\* str.lower() on one character
LowerChar(c) ==
    IF Ascii[c] >= 65 /\ Ascii[c] <= 90
    THEN CHOOSE d \in DOMAIN Ascii : Ascii[d] = Ascii[c] + 32
    ELSE c

\* str.lower()
Lower(s) == [i \in 1..Len(s) |-> LowerChar(s[i])]

\* str.strip(): drop leading and trailing blanks
RECURSIVE LStrip(_)
LStrip(s) == IF s # <<>> /\ Head(s) = " " THEN LStrip(Tail(s)) ELSE s

RECURSIVE RStrip(_)
RStrip(s) ==
    IF s # <<>> /\ s[Len(s)] = " " THEN RStrip(SubSeq(s, 1, Len(s) - 1)) ELSE s

Strip(s) == RStrip(LStrip(s))

\* python's < on str: first differing character decides, else the shorter
StrLess(a, b) ==
    LET n == IF Len(a) < Len(b) THEN Len(a) ELSE Len(b)
        d == {i \in 1..n : a[i] # b[i]}
    IN  IF d = {} THEN Len(a) < Len(b)
        ELSE Ascii[a[Min(d)]] < Ascii[b[Min(d)]]

StrLeq(a, b) == a = b \/ StrLess(a, b)

\* `pat in s`
Contains(s, pat) ==
    \E i \in 0..(Len(s) - Len(pat)) : SubSeq(s, i + 1, i + Len(pat)) = pat

\* fnmatch.fnmatch(s, pat) for patterns made of literals, * and ?
\* (no table or pattern of the model uses a [...] class)
RECURSIVE FnMatch(_, _)
FnMatch(s, pat) ==
    IF pat = <<>> THEN s = <<>>
    ELSE IF Head(pat) = "*"
         THEN \E k \in 0..Len(s) : FnMatch(SubSeq(s, k + 1, Len(s)), Tail(pat))
         ELSE /\ s # <<>>
              /\ Head(pat) = "?" \/ Head(pat) = Head(s)
              /\ FnMatch(Tail(s), Tail(pat))

(* ------------------------------ paths --------------------------------- *)

\* results that are no path (no name is the string "ENOENT"): a failed
\* resolution, a failed relative_to
NoEnt == << <<"ENOENT">> >>

ValueError == << <<"ValueError">> >>

DotDot == <<".", ".">>

\* PurePath.name: the final component
Name(path) == IF path = <<>> THEN <<>> ELSE path[Len(path)]

Parent(path) == SubSeq(path, 1, Len(path) - 1)

\* "/".join(parts)
RECURSIVE JoinParts(_)
JoinParts(parts) ==
    IF parts = <<>> THEN <<>>
    ELSE IF Len(parts) = 1 THEN parts[1]
         ELSE parts[1] \o <<"/">> \o JoinParts(Tail(parts))

\* str(path) of an absolute path
Str(path) == <<"/">> \o JoinParts(path)

\* the components of a path string: split at "/", dropping empty and "."
\* components as pathlib does (".." is kept)
RECURSIVE SplitParts(_, _)
SplitParts(s, cur) ==
    LET keep == IF cur = <<>> \/ cur = <<".">> THEN <<>> ELSE <<cur>>
    IN  IF s = <<>> THEN keep
        ELSE IF Head(s) = "/" THEN keep \o SplitParts(Tail(s), <<>>)
             ELSE SplitParts(Tail(s), Append(cur, Head(s)))

\* root / rel_path: an absolute right operand replaces the left one
JoinPath(root, rel) ==
    IF rel # <<>> /\ Head(rel) = "/" THEN SplitParts(rel, <<>>)
    ELSE root \o SplitParts(rel, <<>>)

IsPrefix(p, q) == Len(p) <= Len(q) /\ SubSeq(q, 1, Len(p)) = p

\* path.relative_to(root): purely lexical; "ValueError" when root is no prefix
RelativeTo(path, root) ==
    IF IsPrefix(root, path) THEN SubSeq(path, Len(root) + 1, Len(path))
    ELSE ValueError

\* str() of a relative path; the empty relative path prints as "."
RelStr(rel) == IF rel = <<>> THEN <<".">> ELSE JoinParts(rel)

\* PurePath.suffix: from the last dot of the name, unless the name starts
\* or ends with that dot
Suffix(path) ==
    LET name == Name(path)
        dots == {i \in 1..Len(name) : name[i] = "."}
    IN  IF dots = {} THEN <<>>
        ELSE IF Max(dots) > 1 /\ Max(dots) < Len(name)
             THEN SubSeq(name, Max(dots), Len(name))
             ELSE <<>>

\* python's < on Path objects: the tuples of components, compared
\* component by component
PathLess(p, q) ==
    LET n == IF Len(p) < Len(q) THEN Len(p) ELSE Len(q)
        d == {i \in 1..n : p[i] # q[i]}
    IN  IF d = {} THEN Len(p) < Len(q)
        ELSE StrLess(p[Min(d)], q[Min(d)])

\* sorted(S) for a set of paths
RECURSIVE SortPaths(_)
SortPaths(S) ==
    IF S = {} THEN <<>>
    ELSE LET m == CHOOSE x \in S : \A y \in S \ {x} : PathLess(x, y)
         IN  <<m>> \o SortPaths(S \ {m})

Reverse(s) == [i \in 1..Len(s) |-> s[Len(s) + 1 - i]]

RECURSIVE Concat(_)
Concat(ss) == IF ss = <<>> THEN <<>> ELSE Head(ss) \o Concat(Tail(ss))

(* ---------------------------- file system ----------------------------- *)
\* A file system maps each existing path to "dir", "text" (a file that
\* decodes as UTF-8) or "binary" (a file that does not).

\* the OS resolution of a path: ".." steps to the parent of a directory,
\* any other component steps into a directory; "ENOENT" when a step fails
RECURSIVE Resolve(_, _, _)
Resolve(f, cur, rest) ==
    IF rest = <<>> THEN (IF cur \in DOMAIN f THEN cur ELSE NoEnt)
    ELSE IF cur \notin DOMAIN f \/ f[cur] # "dir" THEN NoEnt
         ELSE IF Head(rest) = DotDot
              THEN Resolve(f, Parent(cur), Tail(rest))
              ELSE Resolve(f, Append(cur, Head(rest)), Tail(rest))

Real(f, path) == Resolve(f, <<>>, path)

\* Path.exists(), Path.is_file(), Path.is_dir()
Exists(f, path) == Real(f, path) # NoEnt

IsFile(f, path) == Exists(f, path) /\ f[Real(f, path)] # "dir"

IsDir(f, path) == Exists(f, path) /\ f[Real(f, path)] = "dir"

\* the entries of a directory
Children(f, dir) == {p \in DOMAIN f : Len(p) = Len(dir) + 1 /\ IsPrefix(dir, p)}

\* Path.iterdir() / os.scandir(): the order is the file system's; the model
\* offers the two orders by name, ascending and descending
Listing(f, dir, rev) ==
    IF rev THEN Reverse(SortPaths(Children(f, dir))) ELSE SortPaths(Children(f, dir))

\* root.rglob("*"): every directory of the tree in pre-order, each one
\* yielding its entries; nothing at all when root is no directory
RECURSIVE RGlobDir(_, _, _)
RGlobDir(f, dir, rev) ==
    LET ls == Listing(f, dir, rev)
        subs == [i \in 1..Len(ls) |->
                    IF f[ls[i]] = "dir" THEN RGlobDir(f, ls[i], rev) ELSE <<>>]
    IN  ls \o Concat(subs)

\* a scan that lists the root alone (glob instead of rglob)
RGlob_flat(f, root, rev) == IF IsDir(f, root) THEN Listing(f, root, rev) ELSE <<>>

RGlob(f, root, rev) == IF IsDir(f, root) THEN RGlobDir(f, root, rev) ELSE <<>>

\* input_paths = None: no --input-list was given
None == << <<"None">> >>

(* ------------------------- the indexed world -------------------------- *)

Cwd == <<<<"w">>>>

\* the tree to index, and a root_dir argument that names nothing
RootDir == <<<<"w">>, <<"r">>>>

MissingRoot == <<<<"w">>, <<"m">>>>

\* the -o arguments: under the root, beside it, in a directory that does
\* not exist, and the root's own .gitignore
OutputInRoot == RootDir \o <<<<"o", "u", "t", ".", "m", "d">>>>

OutputBeside == Cwd \o <<<<"o", "u", "t", ".", "m", "d">>>>

OutputNoDir == Cwd \o <<<<"n">>, <<"o", "u", "t", ".", "m", "d">>>>

GitignorePath == RootDir \o <<<<".", "g", "i", "t", "i", "g", "n", "o", "r", "e">>>>

OutputGitignore == GitignorePath

\* the lines of the .gitignore file, when the tree has one
GitignoreLines == <<<<"#", " ", "t", "m", "p">>, <<>>, <<" ", "*", "/", "a", ".", "p", "y", " ">>>>

Dirs ==
    { <<>>, Cwd, RootDir,
      RootDir \o <<<<"s", "r", "c">>>>,
      RootDir \o <<<<"x", ".", "l", "o", "g">>>>,
      RootDir \o <<<<".", "g", "i", "t">>>> }

TextFiles ==
    { Cwd \o <<<<"q", ".", "p", "y">>>>,
      RootDir \o <<<<"R", "E", "A", "D", "M", "E", ".", "m", "d">>>>,
      RootDir \o <<<<"s", "r", "c", "-", "x">>>>,
      RootDir \o <<<<"s", "r", "c">>, <<"a", ".", "p", "y">>>>,
      RootDir \o <<<<"s", "r", "c">>, <<"B", ".", "P", "Y">>>>,
      RootDir \o <<<<"x", ".", "l", "o", "g">>, <<"k", ".", "m", "d">>>>,
      RootDir \o <<<<".", "g", "i", "t">>, <<"c", "o", "n", "f", "i", "g">>>> }

BinaryFiles == { RootDir \o <<<<"b", "i", "n", ".", "d", "a", "t">>>> }

\* the file system before the first run
WorldFs(with_gitignore) ==
    LET texts == TextFiles \cup (IF with_gitignore THEN {GitignorePath} ELSE {})
    IN  [p \in Dirs \cup texts \cup BinaryFiles |->
            IF p \in Dirs THEN "dir" ELSE IF p \in texts THEN "text" ELSE "binary"]

\* the -e arguments
UserExcludes == { {}, {<<"*", ".", "m", "d">>} }

\* the lines an --input-list file may hold
ManifestLines ==
    { <<"s", "r", "c", "/", "a", ".", "p", "y">>, <<"m", "i", "s", "s", "i", "n", "g", ".", "t", "x", "t">>, <<" ", "s", "r", "c", " ">>, <<"x", ".", "l", "o", "g">>,
      <<".", ".", "/", "q", ".", "p", "y">>, <<"b", "i", "n", ".", "d", "a", "t">> }

InputLists == UNION {[1..n -> ManifestLines] : n \in 0..MaxManifestLen}

(* --------------------------- CodebaseIndexer -------------------------- *)

\* the non-empty, non-comment lines, stripped
RECURSIVE PatternLines(_)
PatternLines(lines) ==
    IF lines = <<>> THEN <<>>
    ELSE LET line == Strip(Head(lines))
         IN  IF line # <<>> /\ Head(line) # "#"
             THEN <<line>> \o PatternLines(Tail(lines))
             ELSE PatternLines(Tail(lines))

\* the lines of a file of the tree: the output artifact holds what was
\* written to it, any other file is the .gitignore of the tree
ReadLines(path, output, artifact) ==
    IF path = output THEN [i \in 1..Len(artifact) |-> artifact[i].text]
    ELSE GitignoreLines

\* _load_gitignore
LoadGitignore(f, root, output, artifact) ==
    LET gitignore_path == Append(root, <<".", "g", "i", "t", "i", "g", "n", "o", "r", "e">>)
    IN  IF ~Exists(f, gitignore_path) THEN <<>>
        ELSE PatternLines(ReadLines(gitignore_path, output, artifact))

\* an exclusion test without the glob match on the final component
ShouldExclude_substring(path) ==
    \/ \E pattern \in excludes : Contains(Str(path), pattern)
    \/ \E i \in 1..Len(gitignore_patterns) :
          FnMatch(Str(path), gitignore_patterns[i])

\* _should_exclude
ShouldExclude(path) ==
    \/ \E pattern \in excludes :
          \/ FnMatch(Name(path), pattern)
          \/ Contains(Str(path), pattern)
    \/ \E i \in 1..Len(gitignore_patterns) :
          FnMatch(Str(path), gitignore_patterns[i])

\* a lookup that forgets .lower()
GetLanguage_case_sensitive(path) ==
    LET ext == Suffix(path)
    IN  IF ext \in DOMAIN LANGUAGE_MAP THEN LANGUAGE_MAP[ext] ELSE "text"

\* _get_language
GetLanguage(path) ==
    LET ext == Lower(Suffix(path))
    IN  IF ext \in DOMAIN LANGUAGE_MAP THEN LANGUAGE_MAP[ext] ELSE "text"

\* one element of the output artifact
Piece(kind, text, lang, tree) ==
    [kind |-> kind, text |-> text, lang |-> lang, tree |-> tree]

Header == Piece("header", <<>>, "", <<>>)

ContentsHeading == Piece("contents", <<>>, "", <<>>)

\* a line of the simple list
ListLine(text) == Piece("line", text, "", <<>>)

\* _process_file: "" for a file that does not decode, else the block with
\* the relative path and the language tag (the content itself is not
\* modelled); relative_to raises when the path does not start with the root
ProcessFile(f, path, root) ==
    IF f[Real(f, path)] = "binary" THEN Piece("empty", <<>>, "", <<>>)
    ELSE IF RelativeTo(path, root) = ValueError
         THEN Piece("raise", <<>>, "", <<>>)
         ELSE Piece("block", RelStr(RelativeTo(path, root)), GetLanguage(path), <<>>)

\* one line of the fallback tree: the accumulated prefix, the connector and
\* the name; node records which path the line renders
TreeLine(prefix, is_last, path) ==
    [prefix |-> prefix,
     connector |-> IF is_last THEN "+-- " ELSE "|-- ",
     name |-> Name(path),
     node |-> path]

\* _manual_tree_generation._walk_dir
RECURSIVE WalkDir(_, _, _, _)
WalkDir(f, path, prefix, is_last) ==
    IF ShouldExclude(path) THEN <<>>
    ELSE <<TreeLine(prefix, is_last, path)>> \o
         (IF IsDir(f, path)
          THEN LET items == SelectSeq(SortPaths(Children(f, path)),
                                      LAMBDA item : ~ShouldExclude(item))
                   new_prefix == Append(prefix, IF is_last THEN "    " ELSE "|   ")
               IN  Concat([i \in 1..Len(items) |->
                              WalkDir(f, items[i], new_prefix, i = Len(items))])
          ELSE <<>>)

\* _manual_tree_generation
ManualTree(f, root) == WalkDir(f, root, <<>>, TRUE)

\* _generate_tree: the output of the external tree command when it runs,
\* else the fallback renderer
GenerateTree(f, root, tree_ok) ==
    IF tree_ok THEN Piece("tree", <<>>, "external", <<>>)
    ELSE Piece("tree", <<>>, "manual", ManualTree(f, root))

(* -------------------------------- main -------------------------------- *)

Range(s) == {s[i] : i \in 1..Len(s)}

\* [line.strip() for line in f if line.strip()]
RECURSIVE StripLines(_)
StripLines(lines) ==
    IF lines = <<>> THEN <<>>
    ELSE IF Strip(Head(lines)) # <<>>
         THEN <<Strip(Head(lines))>> \o StripLines(Tail(lines))
         ELSE StripLines(Tail(lines))

\* open(path, "w") succeeds when the directory exists and the path is no
\* directory; it creates the file when missing
CanOpen(f, path) == IsDir(f, Parent(path)) /\ ~IsDir(f, path)

Create(f, path) == IF path \in DOMAIN f THEN f ELSE f @@ (path :> "text")

\* a scan evaluated before the output file is opened
ScanSnapshot_before(before, after) == before

\* the file system the scan of the simple list walks: the output file is
\* opened first, the enumeration is evaluated inside the with block
ScanSnapshot(before, after) == after

\* an enumeration written out in the order it arrives
Sorted_missing(paths) == paths

\* sorted(...) of an enumeration of paths
Sorted(paths) == SortPaths(Range(paths))

Init ==
    /\ \E root \in {RootDir, MissingRoot},
          output \in {OutputInRoot, OutputBeside, OutputNoDir, OutputGitignore},
          exclude \in UserExcludes,
          simple_list \in BOOLEAN,
          input_list \in InputLists \cup {None},
          with_gitignore \in BOOLEAN,
          tree_ok \in BOOLEAN,
          scan_rev \in BOOLEAN :
        \* choices the chosen mode never consults are held fixed
        /\ tree_ok => ~simple_list /\ input_list = None
        /\ scan_rev => input_list = None
        /\ args = [root_dir |-> root, output |-> output, exclude |-> exclude,
                   simple_list |-> simple_list, input_list |-> input_list]
        /\ env = [tree_ok |-> tree_ok, scan_rev |-> scan_rev]
        /\ fs = WorldFs(with_gitignore)
    /\ pc = "start"
    /\ excludes = {}
    /\ gitignore_patterns = <<>>
    /\ input_paths = None
    \* out is the content of the file at args.output
    /\ out = IF args.output \in DOMAIN fs
             THEN [i \in 1..Len(GitignoreLines) |-> ListLine(GitignoreLines[i])]
             ELSE <<>>
    /\ todo = <<>>
    /\ exit = "running"
    /\ printed = <<>>
    /\ run = 1
    /\ prev_out = <<>>

\* an uncaught exception: traceback, exit status 1
Raise ==
    /\ pc' = "failed"
    /\ exit' = "1"
    /\ printed' = Append(printed, "traceback")

\* CodebaseIndexer.__init__
Construct ==
    /\ pc = "start"
    /\ excludes' = DEFAULT_EXCLUDES \cup args.exclude
    /\ gitignore_patterns' = LoadGitignore(fs, args.root_dir, args.output, out)
    /\ pc' = "constructed"
    /\ UNCHANGED <<args, env, fs, input_paths, out, todo, exit, printed, run, prev_out>>

\* main: reading --input-list (args.input_list stands for the file's lines)
ReadInputList ==
    /\ pc = "constructed"
    /\ input_paths' = IF args.input_list = None THEN None
                      ELSE StripLines(args.input_list)
    /\ pc' = "dispatch"
    /\ UNCHANGED <<args, env, fs, excludes, gitignore_patterns, out, todo, exit,
                   printed, run, prev_out>>

\* main, --simple-list: open the output, then start either loop
SimpleOpen ==
    /\ pc = "dispatch"
    /\ args.simple_list
    /\ IF ~CanOpen(fs, args.output)
       THEN Raise /\ UNCHANGED <<fs, out, todo>>
       ELSE /\ fs' = Create(fs, args.output)
            /\ out' = <<>>
            /\ todo' = IF input_paths # None THEN input_paths
                       ELSE Sorted(RGlob(ScanSnapshot(fs, fs'),
                                         args.root_dir, env.scan_rev))
            /\ pc' = "simple_list"
            /\ UNCHANGED <<exit, printed>>
    /\ UNCHANGED <<args, env, excludes, gitignore_patterns, input_paths, run, prev_out>>

\* main, --simple-list with a manifest: one iteration
SimpleListStep ==
    /\ pc = "simple_list"
    /\ input_paths # None
    /\ todo # <<>>
    /\ LET rel_path == Head(todo)
           path == JoinPath(args.root_dir, rel_path)
       IN  out' = IF Exists(fs, path) /\ ~ShouldExclude(path)
                  THEN Append(out, ListLine(rel_path))
                  ELSE out
    /\ todo' = Tail(todo)
    /\ UNCHANGED <<args, env, fs, pc, excludes, gitignore_patterns, input_paths,
                   exit, printed, run, prev_out>>

\* main, --simple-list over the scan: one iteration
SimpleScanStep ==
    /\ pc = "simple_list"
    /\ input_paths = None
    /\ todo # <<>>
    /\ LET path == Head(todo)
       IN  out' = IF ~ShouldExclude(path)
                  THEN Append(out, ListLine(RelStr(RelativeTo(path, args.root_dir))))
                  ELSE out
    /\ todo' = Tail(todo)
    /\ UNCHANGED <<args, env, fs, pc, excludes, gitignore_patterns, input_paths,
                   exit, printed, run, prev_out>>

\* main, --simple-list: the loop is over
SimpleDone ==
    /\ pc = "simple_list"
    /\ todo = <<>>
    /\ printed' = Append(printed, "Simple list created successfully")
    /\ exit' = "0"
    /\ pc' = "done"
    /\ UNCHANGED <<args, env, fs, excludes, gitignore_patterns, input_paths, out,
                   todo, run, prev_out>>

\* main, full index with a manifest: open the output, write the headings
ManifestOpen ==
    /\ pc = "dispatch"
    /\ ~args.simple_list
    /\ input_paths # None
    /\ IF ~CanOpen(fs, args.output)
       THEN /\ pc' = "failed"
            /\ exit' = "1"
            /\ printed' = printed \o <<"Indexing codebase using input list", "traceback">>
            /\ UNCHANGED <<fs, out, todo>>
       ELSE /\ fs' = Create(fs, args.output)
            /\ out' = <<Header, ContentsHeading>>
            /\ todo' = input_paths
            /\ pc' = "manifest"
            /\ printed' = Append(printed, "Indexing codebase using input list")
            /\ UNCHANGED exit
    /\ UNCHANGED <<args, env, excludes, gitignore_patterns, input_paths, run, prev_out>>

\* main, full index with a manifest: one iteration
ManifestStep ==
    /\ pc = "manifest"
    /\ todo # <<>>
    /\ LET rel_path == Head(todo)
           path == JoinPath(args.root_dir, rel_path)
           content == ProcessFile(fs, path, args.root_dir)
       IN  IF IsFile(fs, path) /\ ~ShouldExclude(path)
           THEN IF content.kind = "raise"
                THEN Raise /\ UNCHANGED <<out, todo>>
                ELSE /\ out' = IF content.kind = "block" THEN Append(out, content)
                               ELSE out
                     /\ todo' = Tail(todo)
                     /\ UNCHANGED <<pc, exit, printed>>
           ELSE /\ todo' = Tail(todo)
                /\ UNCHANGED <<out, pc, exit, printed>>
    /\ UNCHANGED <<args, env, fs, excludes, gitignore_patterns, input_paths, run,
                   prev_out>>

\* main, full index with a manifest: the loop is over
ManifestDone ==
    /\ pc = "manifest"
    /\ todo = <<>>
    /\ printed' = Append(printed, "Index created successfully")
    /\ exit' = "0"
    /\ pc' = "done"
    /\ UNCHANGED <<args, env, fs, excludes, gitignore_patterns, input_paths, out,
                   todo, run, prev_out>>

\* index: open the output, write the header
IndexOpen ==
    /\ pc = "dispatch"
    /\ ~args.simple_list
    /\ input_paths = None
    /\ IF ~CanOpen(fs, args.output)
       THEN /\ pc' = "failed"
            /\ exit' = "1"
            /\ printed' = printed \o <<"Indexing codebase", "traceback">>
            /\ UNCHANGED <<fs, out>>
       ELSE /\ fs' = Create(fs, args.output)
            /\ out' = <<Header>>
            /\ pc' = "index_tree"
            /\ printed' = Append(printed, "Indexing codebase")
            /\ UNCHANGED exit
    /\ UNCHANGED <<args, env, excludes, gitignore_patterns, input_paths, todo, run,
                   prev_out>>

\* an index that leaves the directory structure section out
IndexTree_skipped ==
    /\ pc = "index_tree"
    /\ pc' = "index_contents"
    /\ UNCHANGED <<args, env, fs, excludes, gitignore_patterns, input_paths, out,
                   todo, exit, printed, run, prev_out>>

\* index: the directory structure section
IndexTree ==
    /\ pc = "index_tree"
    /\ out' = Append(out, GenerateTree(fs, args.root_dir, env.tree_ok))
    /\ pc' = "index_contents"
    /\ UNCHANGED <<args, env, fs, excludes, gitignore_patterns, input_paths, todo,
                   exit, printed, run, prev_out>>

\* index: the file contents heading; the recursive enumeration starts
IndexContents ==
    /\ pc = "index_contents"
    /\ out' = Append(out, ContentsHeading)
    /\ todo' = RGlob(fs, args.root_dir, env.scan_rev)
    /\ pc' = "index_files"
    /\ UNCHANGED <<args, env, fs, excludes, gitignore_patterns, input_paths, exit,
                   printed, run, prev_out>>

\* index: one iteration over rglob
IndexStep ==
    /\ pc = "index_files"
    /\ todo # <<>>
    /\ LET path == Head(todo)
           content == ProcessFile(fs, path, args.root_dir)
       IN  out' = IF IsFile(fs, path) /\ ~ShouldExclude(path) /\ content.kind = "block"
                  THEN Append(out, content)
                  ELSE out
    /\ todo' = Tail(todo)
    /\ UNCHANGED <<args, env, fs, pc, excludes, gitignore_patterns, input_paths,
                   exit, printed, run, prev_out>>

\* index: the loop is over
IndexDone ==
    /\ pc = "index_files"
    /\ todo = <<>>
    /\ printed' = Append(printed, "Index created successfully")
    /\ exit' = "0"
    /\ pc' = "done"
    /\ UNCHANGED <<args, env, fs, excludes, gitignore_patterns, input_paths, out,
                   todo, run, prev_out>>

\* the same command line once more, the file system left as the run left
\* it; followed for the simple list, whose output is kept in prev_out for
\* comparison with the next run's
Rerun ==
    /\ pc = "done"
    /\ args.simple_list
    /\ run < MaxRuns
    /\ run' = run + 1
    /\ prev_out' = out
    /\ pc' = "start"
    /\ excludes' = {}
    /\ gitignore_patterns' = <<>>
    /\ input_paths' = None
    /\ todo' = <<>>
    /\ exit' = "running"
    /\ printed' = <<>>
    /\ UNCHANGED <<args, env, fs, out>>

Next ==
    \/ Construct
    \/ ReadInputList
    \/ SimpleOpen
    \/ SimpleListStep
    \/ SimpleScanStep
    \/ SimpleDone
    \/ ManifestOpen
    \/ ManifestStep
    \/ ManifestDone
    \/ IndexOpen
    \/ IndexTree
    \/ IndexContents
    \/ IndexStep
    \/ IndexDone
    \/ Rerun

Spec == Init /\ [][Next]_vars

(* ============================== claims ================================ *)

FullIndex == ~args.simple_list

FromManifest == args.input_list # None

\* the output was opened by the run in progress
Writing == pc \in {"simple_list", "manifest", "index_tree", "index_contents",
                   "index_files", "done"}

Kinds(o) == [i \in 1..Len(o) |-> o[i].kind]

BlockIndexes == {i \in 1..Len(out) : out[i].kind = "block"}

\* the path an output line or block heading names
Named(text) == JoinPath(args.root_dir, text)

HasBlock(path) ==
    \E i \in BlockIndexes : out[i].text = RelStr(RelativeTo(path, args.root_dir))

\* the paths under the root that the claims range over: whatever exists
\* there, and one name that does not
UnderRoot(path) == IsPrefix(args.root_dir, path) /\ path # args.root_dir

Candidates ==
    {p \in DOMAIN fs : UnderRoot(p)} \cup {Append(args.root_dir, <<"m", "i", "s", "s", "i", "n", "g", ".", "t", "x", "t">>)}

AllPatterns == DEFAULT_EXCLUDES \cup args.exclude

NameExcluded(path) == \E pattern \in AllPatterns : FnMatch(Name(path), pattern)

(* ------------------------------- C1 ----------------------------------- *)

\* C1 as stated: after a full index over a recursive scan, a path under the
\* root has a block iff it is an existing regular file that _should_exclude
\* lets through, and nothing else decides it.
C1_BlockIffFileAndNotExcluded ==
    (pc = "done" /\ FullIndex /\ ~FromManifest) =>
        \A p \in Candidates :
            HasBlock(p) <=> (IsFile(fs, p) /\ ~ShouldExclude(p))

\* C1 amended: after a full index over a recursive scan, a path under the
\* root has a block iff it is an existing regular file that _should_exclude
\* lets through and whose content decodes as UTF-8.
C1_BlockIffFileNotExcludedAndDecodable ==
    (pc = "done" /\ FullIndex /\ ~FromManifest) =>
        \A p \in Candidates :
            HasBlock(p) <=>
                (IsFile(fs, p) /\ ~ShouldExclude(p) /\ fs[p] # "binary")

\* a finished scan that gave a nested file a block and gave none to the
\* binary file, to a directory and to an excluded file
C1_Witness ==
    /\ pc = "done" /\ FullIndex /\ ~FromManifest
    /\ HasBlock(RootDir \o <<<<"s", "r", "c">>, <<"B", ".", "P", "Y">>>>)
    /\ ~HasBlock(RootDir \o <<<<"b", "i", "n", ".", "d", "a", "t">>>>)
    /\ ~HasBlock(RootDir \o <<<<"s", "r", "c">>>>)
    /\ ~HasBlock(RootDir \o <<<<".", "g", "i", "t">>, <<"c", "o", "n", "f", "i", "g">>>>)

(* ------------------------------- C2 ----------------------------------- *)

\* C2: no line of the simple list and no block of the full index names a
\* path whose final component matches a default or user-supplied exclusion
\* pattern as a glob, for a scan and for a manifest alike.
C2_NoExcludedNameInOutput ==
    Writing =>
        \A i \in 1..Len(out) :
            out[i].kind \in {"line", "block"} => ~NameExcluded(Named(out[i].text))

\* a finished simple list from a manifest that names x.log (matched by
\* *.log) and something that was listed
C2_Witness ==
    /\ pc = "done" /\ args.simple_list /\ FromManifest
    /\ <<"x", ".", "l", "o", "g">> \in Range(input_paths)
    /\ NameExcluded(Named(<<"x", ".", "l", "o", "g">>))
    /\ Exists(fs, Named(<<"x", ".", "l", "o", "g">>))
    /\ out # <<>>

(* ------------------------------- C3 ----------------------------------- *)

Adjacent == {i \in 1..Len(out) : i < Len(out)}

\* C3 as stated: the lines of the simple list are in lexicographic order of
\* the relative path strings.
C3_SortedByString ==
    (pc = "done" /\ args.simple_list) =>
        \A i \in Adjacent : StrLeq(out[i].text, out[i + 1].text)

RECURSIVE IsSubsequence(_, _)
IsSubsequence(a, b) ==
    IF a = <<>> THEN TRUE
    ELSE IF b = <<>> THEN FALSE
         ELSE IF Head(a) = Head(b) THEN IsSubsequence(Tail(a), Tail(b))
              ELSE IsSubsequence(a, Tail(b))

\* C3 amended: over a recursive scan the lines of the simple list are in
\* the order of the paths' component sequences (component by component, a
\* directory before everything below it); with a manifest they keep the
\* order of the manifest.
C3_SortedByComponents ==
    (Writing /\ args.simple_list) =>
        IF FromManifest
        THEN IsSubsequence([i \in 1..Len(out) |-> out[i].text], input_paths)
        ELSE \A i \in Adjacent :
                PathLess(SplitParts(out[i].text, <<>>),
                         SplitParts(out[i + 1].text, <<>>))

\* a finished scan that lists src/B.PY right before src-x, where the two
\* orders disagree
C3_Witness ==
    /\ pc = "done" /\ args.simple_list /\ ~FromManifest
    /\ \E i \in Adjacent :
          /\ out[i].text = <<"s", "r", "c", "/", "B", ".", "P", "Y">>
          /\ out[i + 1].text = <<"s", "r", "c", "-", "x">>

(* ------------------------------- C4 ----------------------------------- *)

\* C4: in a full index from a manifest every block is for an entry that
\* names an existing regular file under the root that is not excluded, and
\* the run does not fail over the entries it leaves out.
C4_ManifestBlocksAreFilesUnderRoot ==
    (Writing /\ FullIndex /\ FromManifest) =>
        /\ \A i \in BlockIndexes :
              /\ IsFile(fs, Named(out[i].text))
              /\ UnderRoot(Real(fs, Named(out[i].text)))
              /\ ~ShouldExclude(Named(out[i].text))
        /\ pc # "failed"

(* ------------------------------- C5 ----------------------------------- *)

\* C5: a run whose root directory does not exist never completes with
\* status 0 and the success message, in either mode.
C5_MissingRootIsFatal ==
    ~IsDir(fs, args.root_dir) => (pc # "done" /\ exit # "0")

(* ------------------------------- C6 ----------------------------------- *)

\* C6: every block of the content section, from a scan or a manifest,
\* names a path that exists under the root and is not excluded, and no two
\* blocks name the same relative path.
C6_BlocksMatchDistinctPaths ==
    (Writing /\ FullIndex) =>
        /\ \A i \in BlockIndexes :
              /\ Exists(fs, Named(out[i].text))
              /\ UnderRoot(Real(fs, Named(out[i].text)))
              /\ ~ShouldExclude(Named(out[i].text))
        /\ \A i, j \in BlockIndexes : i # j => out[i].text # out[j].text

(* ------------------------------- C7 ----------------------------------- *)

\* what is written so far is a header, a tree, the contents heading, then
\* blocks
HeaderTreeContents ==
    \A i \in 1..Len(out) :
        out[i].kind = (IF i = 1 THEN "header" ELSE IF i = 2 THEN "tree"
                       ELSE IF i = 3 THEN "contents" ELSE "block")

\* what is written so far is a header, the contents heading, then blocks
HeaderContents ==
    \A i \in 1..Len(out) :
        out[i].kind = (IF i = 1 THEN "header" ELSE IF i = 2 THEN "contents"
                       ELSE "block")

\* C7 as stated: a full index is a header, a tree section and the content
\* section in that order, from a scan and from a manifest.
C7_HeaderTreeContentsAlways ==
    (Writing /\ FullIndex) =>
        /\ HeaderTreeContents
        /\ pc = "done" => Len(out) >= 3

\* C7 amended: a full index over a recursive scan is a header, a tree
\* section and the content section in that order; a full index from a
\* manifest is a header and the content section, with no tree section.
C7_TreeOnlyForScan ==
    (Writing /\ FullIndex) =>
        IF FromManifest
        THEN HeaderContents /\ (pc = "done" => Len(out) >= 2)
        ELSE HeaderTreeContents /\ (pc = "done" => Len(out) >= 3)

\* a finished scan with blocks after the three sections
C7_Witness ==
    /\ pc = "done" /\ FullIndex /\ ~FromManifest
    /\ Len(out) > 3
    /\ Kinds(out)[2] = "tree"

(* ------------------------------- C8 ----------------------------------- *)

\* C8 as stated: a second simple-list run with the same arguments writes
\* what the first wrote, wherever under the root the output lies.
C8_SecondRunIdentical ==
    (pc = "done" /\ run > 1) => out = prev_out

\* C8 amended: a second simple-list run with the same arguments writes what
\* the first wrote, also when the output lies under the root, unless the
\* output is the root's .gitignore, which the next run loads as patterns.
C8_IdenticalUnlessOutputIsGitignore ==
    (pc = "done" /\ run > 1
        /\ args.output # Append(args.root_dir, <<".", "g", "i", "t", "i", "g", "n", "o", "r", "e">>)) =>
        out = prev_out

\* a second scan finished with the output under the root and listed in
\* itself
C8_Witness ==
    /\ pc = "done" /\ run > 1 /\ ~FromManifest
    /\ args.output = OutputInRoot
    /\ \E i \in 1..Len(out) : out[i].text = <<"o", "u", "t", ".", "m", "d">>
    /\ Len(out) > 1

(* ------------------------------- C9 ----------------------------------- *)

\* the name ends, in any letter case, with the table key ext, and has
\* something before it
EndsWithExtension(name, ext) ==
    /\ Len(name) > Len(ext)
    /\ Lower(SubSeq(name, Len(name) - Len(ext) + 1, Len(name))) = ext

ExpectedTag(name) ==
    IF \E ext \in DOMAIN LANGUAGE_MAP : EndsWithExtension(name, ext)
    THEN LANGUAGE_MAP[CHOOSE ext \in DOMAIN LANGUAGE_MAP : EndsWithExtension(name, ext)]
    ELSE "text"

\* C9: the language tag of every block is the table's value for the
\* extension of the file's name, letter case ignored, at any depth, and
\* "text" when the table has no such extension.
C9_TagFromExtension ==
    \A i \in BlockIndexes : out[i].lang = ExpectedTag(Name(Named(out[i].text)))

\* a finished index with a nested upper-case .PY file tagged python and a
\* file without extension tagged text
C9_Witness ==
    /\ pc = "done" /\ FullIndex
    /\ \E i \in BlockIndexes :
          out[i].text = <<"s", "r", "c", "/", "B", ".", "P", "Y">> /\ out[i].lang = "python"
    /\ \E i \in BlockIndexes :
          out[i].text = <<"s", "r", "c", "-", "x">> /\ out[i].lang = "text"

(* ------------------------------- C10 ---------------------------------- *)

\* C10: after a full index over a recursive scan with the fallback tree
\* renderer, every file with a block is a node of the rendered tree.
C10_BlocksAreTreeNodes ==
    (pc = "done" /\ FullIndex /\ ~FromManifest /\ out[2].lang = "manual") =>
        \A i \in BlockIndexes :
            \E j \in 1..Len(out[2].tree) : out[2].tree[j].node = Named(out[i].text)

====
